---- MODULE Spec2Model ----
(***************************************************************************)
(* Model of the ArbiWeb price service (src/server/priceService.ts): the    *)
(* spot-price poller, the per-symbol history buffer, and getCandles with   *)
(* its candle cache, retry loop and fallback tiers; and of the WebSocket   *)
(* manager (src/unnamed/part_010): handshake, registry, heartbeat, emits;  *)
(* of the ledger routes (src/server/routes.ts); and of the client's        *)
(* PriceProvider (src/client/src/lib/auth.tsx).                            *)
(*                                                                         *)
(* Time is counted in whole seconds; every millisecond quantity of the     *)
(* source (Date.now(), CACHE_DURATION, the retry delays, the windows) is   *)
(* divided by 1000.  Prices are integers.                                  *)
(***************************************************************************)
EXTENDS Integers, Sequences, FiniteSets, TLC

(***************************************************************************)
(* Bounds of the exploration and the environment's input sets.             *)
(***************************************************************************)
\* Date.now() at construction of the service (epoch seconds): 55 s past a
\* 5-minute boundary, so that timestamps 60 s apart straddle a bucket edge.
T0 == 1699999855
\* slots for getCandles invocations that are in progress at the same time
CallIds == {1, 2}
\* coins for which a /simple/price response carries data
PolledSymbols == {"ETH"}
\* how far behind the clock a coin's last_updated_at is (0: current)
UpdatedLags == {0, 60}

\* Spec: getCandles invocations one after the other, upstream up or down.
\* Clock advances, and their amounts: less than the cache lifetime, exactly
\* the cache lifetime, and just under one hour.
MaxTicks == 1
TickSteps == {5, 60, 3540}
MaxCalls == 2
\* arguments (symbol, interval, limit): a tracked symbol with each interval
\* of the chart, an interval the service does not know ("5m"), the symbol in
\* lower case, and a symbol that is not tracked
CallArgs ==
  { <<"ETH", "1H", 1>>, <<"ETH", "1H", 2>>, <<"ETH", "24H", 2>>,
    <<"ETH", "7D", 2>>, <<"ETH", "30D", 2>>, <<"ETH", "90D", 2>>,
    <<"ETH", "1Y", 2>>, <<"ETH", "5m", 2>>, <<"eth", "1H", 2>>,
    <<"DOGE", "1H", 2>> }

\* SpecDown: the poller, and getCandles while the OHLC endpoint is down.
DownTicks == 1
DownTickSteps == {3540}
DownPolls == 3
DownCalls == 1
DownArgs == { <<"ETH", "1H", 1>>, <<"eth", "24H", 2>>, <<"DOGE", "1H", 2>> }
\* spot prices the upstream reports for a coin (usd) with the lag of its
\* last_updated_at
DownQuotes == { <<2500, 0>>, <<2600, 60>>, <<2400, 60>> }

\* SpecConc: getCandles invocations that overlap, all within one lifetime of
\* a cache entry (the clock advances by the waits of the retry loop only).
ConcCalls == 2
ConcArgs == { <<"ETH", "1H", 2>>, <<"ETH", "24H", 1>> }

\* SpecPoll: the poller alone, with every kind of spot price.
PollTicks == 2
\* one polling period, and just over the 24 hours the buffer keeps
PollTickSteps == {20, 86401}
PollPolls == 2
PollQuotes == {0, 50000, 50100, -5} \X UpdatedLags
\* arguments of getHistoricalPrices: symbols and minutes
QuerySymbols == {"ETH", "eth", "DOGE"}
QueryMinutes == {1, 60, 1440}

\* SpecTimer: start(), the polling timer and stop().
TimerStarts == 2
TimerStops == 2
TimerPolls == 3
TimerQuotes == { <<50000, 0>>, <<50100, 60>> }

\* SpecWait: overlapping getCandles invocations and polls.
WaitPolls == 1
WaitQuotes == { <<50000, 0>> }

\* SpecLedger: deposits, payment callbacks, withdrawals and their review.
MaxTx == 3
MaxIpn == 2
\* amountUsd of a deposit or withdrawal request
Amounts == {50, 100}
\* payment_status of a callback
PaymentStatuses == {"confirming", "finished", "failed"}

\* SpecProvider: the client's PriceProvider.
MaxSockets == 3
MaxTokenChanges == 2
\* values of the auth context's token: null ("none") and two credentials
AuthTokens == {"none", "A", "B"}

\* SpecWs: the WebSocket manager.
MaxConns == 2
MaxEmits == 2
\* SpecHb: the heartbeat of the WebSocket manager.
HbConns == 2
\* the identities a credential's payload carries (userId: number)
UserIds == {0, 1}

(***************************************************************************)
(* Program constants and tables.                                           *)
(***************************************************************************)
coinGeckoIds ==
  [BTC |-> "bitcoin", ETH |-> "ethereum", SOL |-> "solana", USDT |-> "tether"]

TrackedSymbols == DOMAIN coinGeckoIds

MAX_HISTORY_HOURS == 24

CACHE_DURATION == 60

maxRetries == 4

\* the period of the polling timer, in seconds
POLL_INTERVAL == 20

\* a faulty retryDelays: doubling delays (C18 must reject it)
retryDelays_Doubling == <<1, 2, 4>>

retryDelays == <<1, 2, 5>>

\* String.prototype.toUpperCase on the symbols the model uses
toUpperCase(s) ==
  CASE s = "eth" -> "ETH"
    [] s = "btc" -> "BTC"
    [] OTHER -> s

intervalToMinutes(interval) ==
  CASE interval = "1H" -> 60
    [] interval = "24H" -> 1440
    [] interval = "7D" -> 10080
    [] interval = "30D" -> 43200
    [] interval = "90D" -> 129600
    [] interval = "1Y" -> 525600
    [] OTHER -> 60

\* width of a reconstructed candle, in seconds
getCandleIntervalMs(interval) ==
  CASE interval = "1H" -> 5 * 60
    [] interval = "24H" -> 60 * 60
    [] interval = "7D" -> 4 * 60 * 60
    [] interval = "30D" -> 24 * 60 * 60
    [] interval = "90D" -> 24 * 60 * 60
    [] interval = "1Y" -> 7 * 24 * 60 * 60
    [] OTHER -> 60 * 60

intervalToDays(interval) ==
  CASE interval = "1H" -> 1
    [] interval = "24H" -> 1
    [] interval = "7D" -> 7
    [] interval = "30D" -> 30
    [] interval = "90D" -> 90
    [] interval = "1Y" -> 365
    [] interval = "1h" -> 1
    [] interval = "4h" -> 7
    [] interval = "1d" -> 30
    [] OTHER -> 1

(***************************************************************************)
(* Values.                                                                 *)
(***************************************************************************)
Candle(t, o, h, l, c) ==
  [time |-> t, open |-> o, high |-> h, low |-> l, close |-> c, volume |-> 0]

\* Map.get() of a missing key: undefined
NoEntry == [present |-> FALSE, data |-> <<>>, timestamp |-> 0]

CacheEntry(candles, t) == [present |-> TRUE, data |-> candles, timestamp |-> t]

\* the template string `${symbol}-${interval}`
cacheKey(symbol, interval) == <<symbol, interval>>

CacheKeys ==
  { cacheKey(a[1], a[2]) : a \in CallArgs \cup DownArgs \cup ConcArgs }

Min2(a, b) == IF a <= b THEN a ELSE b

Max2(a, b) == IF a >= b THEN a ELSE b

\* Math.max(...prices) and Math.min(...prices) of a non-empty array
RECURSIVE MathMax(_)
MathMax(prices) ==
  IF Len(prices) = 1 THEN prices[1]
  ELSE Max2(prices[1], MathMax(Tail(prices)))

RECURSIVE MathMin(_)
MathMin(prices) ==
  IF Len(prices) = 1 THEN prices[1]
  ELSE Min2(prices[1], MathMin(Tail(prices)))

\* Array.prototype.slice(start) with one argument
slice(arr, start) ==
  LET len == Len(arr)
      from == IF start < 0 THEN Max2(len + start, 0) ELSE Min2(start, len)
  IN SubSeq(arr, from + 1, len)

\* the two targeted emits of the WebSocket manager, and the record of one
\* that was never called
EmitKinds == {"user", "admins"}
NoEmit == [called |-> FALSE, hadTarget |-> FALSE, sent |-> 0]

VARIABLES
  now,            \* Date.now()
  ticks,          \* clock advances so far
  prices,         \* this.prices: symbol -> current sample
  priceHistory,   \* this.priceHistory: symbol -> points
  candleCache,    \* this.candleCache: key -> entry
  pollsStarted,   \* fetchPrices() invocations so far
  pollsInFlight,  \* fetchPrices() invocations awaiting their response
  callsStarted,   \* getCandles invocations so far
  broadcastCount, \* price_update messages handed to wsManager.broadcast
  lastBroadcast,  \* the prices array of the latest price_update
  lastPoll,       \* history variable: how the latest completed fetchPrices() ended
  calls,          \* the getCandles invocations
  pollingInterval, \* this.pollingInterval: 0 (null) or a timer of `intervals`
  intervals,      \* the timers setInterval created: next deadline, 0 when cleared
  startsAwaiting, \* start() invocations awaiting their fetchPrices()
  startCalls,     \* start() invocations so far
  stopCalls,      \* stop() invocations so far
  stopped,        \* history variable: stop() was invoked and start() not since
  conns,          \* the sockets handed to the connection handler, in order
  clients,        \* WebSocketManager.clients: userId -> set of sockets
  adminClients,   \* WebSocketManager.adminClients
  emits,          \* emitToUser / emitToAdmins invocations so far
  lastEmit,       \* history variable: per kind of emit, what the latest one did
  hbLog,          \* history variable of SpecHb: per socket, whether a heartbeat
                  \* check has examined it and whether a pong came since
  wallet,         \* the wallets row of the user
  transactions,   \* the transactions table, by id
  ipns,           \* payment callbacks handled so far
  authToken,      \* PriceProvider: the token of the auth context
  mounted,        \* PriceProvider is mounted
  sockets,        \* the WebSockets the provider created, in order
  wsRef,          \* wsRef.current: 0 (null) or a socket of `sockets`
  reconnectTimeoutRef, \* reconnectTimeoutRef.current: 0 (null) or a timer
  reconnectTimers, \* the timers setTimeout created in onclose
  isConnected,    \* PriceProvider state isConnected
  tokenChanges    \* changes of the token so far

vars ==
  <<now, ticks, prices, priceHistory, candleCache, pollsStarted, pollsInFlight,
    callsStarted, broadcastCount, lastBroadcast, lastPoll, calls,
    pollingInterval, intervals, startsAwaiting, startCalls, stopCalls, stopped,
    conns, clients, adminClients, emits, lastEmit, hbLog,
    wallet, transactions, ipns,
    authToken, mounted, sockets, wsRef, reconnectTimeoutRef, reconnectTimers,
    isConnected, tokenChanges>>

providerVars ==
  <<authToken, mounted, sockets, wsRef, reconnectTimeoutRef, reconnectTimers,
    isConnected, tokenChanges>>

ledgerVars == <<wallet, transactions, ipns>>

wsVars == <<conns, clients, adminClients, emits, lastEmit, hbLog>>

serviceVars ==
  <<now, ticks, prices, priceHistory, candleCache, pollsStarted, pollsInFlight,
    callsStarted, broadcastCount, lastBroadcast, lastPoll, calls,
    pollingInterval, intervals, startsAwaiting, startCalls, stopCalls, stopped>>

timerVars ==
  <<pollingInterval, intervals, startsAwaiting, startCalls, stopCalls, stopped>>

(***************************************************************************)
(* History buffer.                                                         *)
(***************************************************************************)
HistoryPoint(t, p) == [timestamp |-> t, price |-> p]

\* addToHistory: the new contents of one symbol's buffer
addToHistory(history, price, timestamp) ==
  LET pushed == Append(history, HistoryPoint(timestamp, price))
      cutoffTime == timestamp - (MAX_HISTORY_HOURS * 60 * 60)
  IN SelectSeq(pushed, LAMBDA point : point.timestamp >= cutoffTime)

\* this.priceHistory.get(symbol.toUpperCase()) || []
historyOf(hist, symbol) ==
  IF toUpperCase(symbol) \in DOMAIN hist THEN hist[toUpperCase(symbol)] ELSE <<>>

\* a faulty getHistoricalPrices: the point at the cutoff is left out (C12
\* must reject it)
getHistoricalPrices_Strict(hist, symbol, minutes, t) ==
  LET history == historyOf(hist, symbol)
      cutoffTime == t - (minutes * 60)
  IN SelectSeq(history, LAMBDA point : point.timestamp > cutoffTime)

getHistoricalPrices(hist, symbol, minutes, t) ==
  LET history == historyOf(hist, symbol)
      cutoffTime == t - (minutes * 60)
  IN SelectSeq(history, LAMBDA point : point.timestamp >= cutoffTime)

(***************************************************************************)
(* Current prices.                                                         *)
(***************************************************************************)
PriceData(p, t) == [present |-> TRUE, price |-> p, timestamp |-> t]

NoPrice == [present |-> FALSE, price |-> 0, timestamp |-> 0]

\* initializePrices: every tracked symbol starts at price 0
initializePrices == [s \in TrackedSymbols |-> PriceData(0, T0)]

\* initializeHistory
initializeHistory == [s \in TrackedSymbols |-> <<>>]

\* getPrice: this.prices.get(symbol.toUpperCase())
getPrice(pr, symbol) ==
  IF toUpperCase(symbol) \in DOMAIN pr THEN pr[toUpperCase(symbol)] ELSE NoPrice

(***************************************************************************)
(* Candle construction.                                                    *)
(***************************************************************************)
\* a faulty closeCandle: low computed with Math.max (C3 must reject it)
closeCandle_LowIsMax(currentCandle) ==
  Candle(currentCandle.time,
         currentCandle.prices[1],
         MathMax(currentCandle.prices),
         MathMax(currentCandle.prices),
         currentCandle.prices[Len(currentCandle.prices)])

\* a faulty closeCandle: the high is the bucket's first price (C22 must
\* reject it)
closeCandle_HighIsFirst(currentCandle) ==
  Candle(currentCandle.time,
         currentCandle.prices[1],
         currentCandle.prices[1],
         MathMin(currentCandle.prices),
         currentCandle.prices[Len(currentCandle.prices)])

\* the candle pushed when a bucket is closed
closeCandle(currentCandle) ==
  Candle(currentCandle.time,
         currentCandle.prices[1],
         MathMax(currentCandle.prices),
         MathMin(currentCandle.prices),
         currentCandle.prices[Len(currentCandle.prices)])

\* Math.floor(point.timestamp / candleInterval) * candleInterval
candleTimeOf(timestamp, candleInterval) ==
  (timestamp \div candleInterval) * candleInterval

\* the for-loop of constructCandlesFromHistory from index i on, with the
\* candles pushed so far and the candle being filled
RECURSIVE groupPoints(_, _, _, _, _)
groupPoints(history, i, candleInterval, candles, currentCandle) ==
  IF i > Len(history)
  THEN IF currentCandle.present /\ Len(currentCandle.prices) > 0
       THEN Append(candles, closeCandle(currentCandle))
       ELSE candles
  ELSE LET point == history[i]
           candleTime == candleTimeOf(point.timestamp, candleInterval)
       IN IF ~currentCandle.present \/ currentCandle.time # candleTime
          THEN groupPoints(history, i + 1, candleInterval,
                 IF currentCandle.present /\ Len(currentCandle.prices) > 0
                 THEN Append(candles, closeCandle(currentCandle))
                 ELSE candles,
                 [present |-> TRUE, time |-> candleTime,
                  prices |-> <<point.price>>])
          ELSE groupPoints(history, i + 1, candleInterval, candles,
                 [currentCandle EXCEPT !.prices = Append(@, point.price)])

constructCandlesFromHistory(hist, symbol, interval, t) ==
  LET history == getHistoricalPrices(hist, symbol, intervalToMinutes(interval), t)
  IN IF Len(history) = 0 THEN <<>>
     ELSE IF Len(history) = 1
     THEN <<Candle(history[1].timestamp, history[1].price, history[1].price,
                   history[1].price, history[1].price)>>
     ELSE groupPoints(history, 1, getCandleIntervalMs(interval), <<>>,
                      [present |-> FALSE, time |-> 0, prices |-> <<>>])

\* the lookback of enforceTimeframeWindow's switch, in seconds; 0: default branch
windowOf(interval) ==
  CASE interval = "1H" -> 1 * 60 * 60
    [] interval = "24H" -> 24 * 60 * 60
    [] interval = "7D" -> 7 * 24 * 60 * 60
    [] interval = "30D" -> 30 * 24 * 60 * 60
    [] interval = "90D" -> 90 * 24 * 60 * 60
    [] interval = "1Y" -> 365 * 24 * 60 * 60
    [] OTHER -> 0

enforceTimeframeWindow(candles, interval, t) ==
  IF Len(candles) = 0 THEN candles
  ELSE IF windowOf(interval) = 0 THEN candles
  ELSE LET cutoffTime == t - windowOf(interval)
       IN SelectSeq(candles, LAMBDA candle : candle.time >= cutoffTime)

\* data.map(ohlc => ({time: ohlc[0], open: ohlc[1], high: ohlc[2], ...}))
mapOhlc(data) ==
  [i \in 1..Len(data) |->
     Candle(data[i][1], data[i][2], data[i][3], data[i][4], data[i][5])]

(***************************************************************************)
(* getCandles.  A call is a record: its arguments, its locals (cached,     *)
(* attempt), where it is suspended (pc), and what it returned.             *)
(*   pc = "idle"     not invoked yet                                       *)
(*   pc = "backoff"  awaiting setTimeout(resolve, delay)                   *)
(*   pc = "fetch"    awaiting fetch(url) and response.json()               *)
(*   pc = "done"     returned (result, tier) or threw; the caller's        *)
(*                   continuation has not run yet                          *)
(* nFetch counts the fetch(url) requests issued, failures the attempts     *)
(* that ended in the 429 branch or the catch block.                        *)
(***************************************************************************)
IdleCall ==
  [pc |-> "idle", symbol |-> "", interval |-> "", limit |-> 0,
   cached |-> NoEntry, attempt |-> 0, wakeAt |-> 0, nFetch |-> 0,
   failures |-> 0, result |-> <<>>, tier |-> "none"]

\* return <candles>: the call completes at time t
Return(call, candles, tier, t) ==
  [call EXCEPT !.pc = "done", !.result = candles, !.tier = tier]

\* cached && Date.now() - cached.timestamp < this.CACHE_DURATION
isFresh(cached, t) ==
  cached.present /\ t - cached.timestamp < CACHE_DURATION

\* a faulty fromCache: the window filter is left out (C5 must reject it)
fromCache_Unfiltered(call, t) == slice(call.cached.data, -call.limit)

\* return this.enforceTimeframeWindow(cached.data, interval).slice(-limit)
fromCache(call, t) ==
  slice(enforceTimeframeWindow(call.cached.data, call.interval, t), -call.limit)

\* the candle synthesized from the current price map
syntheticCandle(currentPrice, t) ==
  Candle(t, currentPrice.price, currentPrice.price, currentPrice.price,
         currentPrice.price)

\* a faulty zeroCandle: time 0 instead of Date.now() (C7 must reject it)
zeroCandle_TimeZero(t) == Candle(0, 0, 0, 0, 0)

\* the absolute final fallback
zeroCandle(t) == Candle(t, 0, 0, 0, 0)

\* a faulty fallback: no candle synthesized from the current price (C6 must
\* reject it)
fallback_NoSynthetic(call, t, pr, hist) ==
  LET fallbackCandles ==
        constructCandlesFromHistory(hist, call.symbol, call.interval, t)
  IN IF Len(fallbackCandles) > 0
     THEN Return(call, slice(fallbackCandles, -call.limit), "history", t)
     ELSE Return(call, <<zeroCandle(t)>>, "zero", t)

\* the code after the retry loop: history, then current price, then zero
fallback(call, t, pr, hist) ==
  LET fallbackCandles ==
        constructCandlesFromHistory(hist, call.symbol, call.interval, t)
      currentPrice == getPrice(pr, call.symbol)
  IN IF Len(fallbackCandles) > 0
     THEN Return(call, slice(fallbackCandles, -call.limit), "history", t)
     ELSE IF currentPrice.present
     THEN Return(call, <<syntheticCandle(currentPrice, t)>>, "synthetic", t)
     ELSE Return(call, <<zeroCandle(t)>>, "zero", t)

\* whether a failed attempt returns the stale snapshot
\* (cached && attempt === maxRetries - 1)
returnsStale(call) == call.cached.present /\ call.attempt = maxRetries - 1

\* the for-loop from its head, for the call's current attempt, up to the
\* next await or return
RECURSIVE runLoop(_, _, _, _)
runLoop(call, t, pr, hist) ==
  IF call.attempt >= maxRetries
  THEN fallback(call, t, pr, hist)
  ELSE IF toUpperCase(call.symbol) \notin DOMAIN coinGeckoIds
  THEN \* throw new Error(`Unknown symbol`), caught by the catch block
       IF returnsStale(call)
       THEN Return([call EXCEPT !.failures = @ + 1], fromCache(call, t), "stale", t)
       ELSE runLoop([call EXCEPT !.attempt = @ + 1, !.failures = @ + 1],
                    t, pr, hist)
  ELSE IF call.attempt > 0
  THEN [call EXCEPT !.pc = "backoff",
                    !.wakeAt = t + retryDelays[call.attempt]]
  ELSE [call EXCEPT !.pc = "fetch", !.nFetch = @ + 1]

\* response.status === 429
on429(call, t, pr, hist) ==
  IF returnsStale(call)
  THEN Return([call EXCEPT !.failures = @ + 1], fromCache(call, t), "stale", t)
  ELSE runLoop([call EXCEPT !.attempt = @ + 1, !.failures = @ + 1], t, pr, hist)

\* the catch block: fetch rejected, !response.ok, or response.json()/map threw
onError(call, t, pr, hist) ==
  IF returnsStale(call)
  THEN Return([call EXCEPT !.failures = @ + 1], fromCache(call, t), "stale", t)
  ELSE runLoop([call EXCEPT !.attempt = @ + 1, !.failures = @ + 1], t, pr, hist)

\* a faulty cachedResult: the successful fetch clears the entry (C25 must
\* reject it)
cachedResult_Cleared(candles, t) == NoEntry

\* the entry the successful fetch stores
cachedResult(candles, t) == CacheEntry(candles, t)

\* the successful fetch's return value
onSuccess(call, candles, t) ==
  Return(call, slice(enforceTimeframeWindow(candles, call.interval, t), -call.limit),
         "upstream", t)

\* getCandles from its first line to its first await or return
enterGetCandles(call, t, pr, hist) ==
  IF isFresh(call.cached, t)
  THEN Return(call, fromCache(call, t), "fresh", t)
  ELSE runLoop(call, t, pr, hist)

(***************************************************************************)
(* What the upstream can answer.                                           *)
(***************************************************************************)
\* bodies of GET /coins/{id}/ohlc: [timestamp, open, high, low, close] rows.
\* The empty list; a list with a row older than the interval's lookback, a
\* row exactly at its edge and a current row; a row whose high is below its low.
OhlcBodies(interval, t) ==
  LET w == intervalToMinutes(interval) * 60
  IN { <<>>,
       << <<t - w - 1, 10, 12, 9, 11>>, <<t - w, 11, 13, 10, 12>>,
          <<t, 12, 14, 11, 13>> >>,
       << <<t, 10, 9, 12, 11>> >> }

OhlcResponses(interval, t) ==
  { [kind |-> k, data |-> <<>>] : k \in {"429", "notok", "neterr"} }
    \cup { [kind |-> "ok", data |-> d] : d \in OhlcBodies(interval, t) }

\* bodies of GET /simple/price: per tracked symbol the coin's entry, or none
NoCoinData == [present |-> FALSE, usd |-> 0, last_updated_at |-> 0]

PriceBodies(quotes, t) ==
  { [s \in TrackedSymbols |->
       IF s = p
       THEN [present |-> TRUE, usd |-> q[1], last_updated_at |-> t - q[2]]
       ELSE NoCoinData]
    : p \in PolledSymbols, q \in quotes }

PriceResponses(quotes, t) ==
  { [kind |-> k, data |-> [s \in TrackedSymbols |-> NoCoinData]]
      : k \in {"429", "notok", "neterr"} }
    \cup { [kind |-> "ok", data |-> d] : d \in PriceBodies(quotes, t) }

(***************************************************************************)
(* fetchPrices.                                                            *)
(***************************************************************************)
\* const price = coinData.usd || 0
priceOf(coinData) == IF coinData.usd = 0 THEN 0 ELSE coinData.usd

\* const timestamp = (coinData.last_updated_at || now / 1000) * 1000
timestampOf(coinData, t) ==
  IF coinData.last_updated_at = 0 THEN t ELSE coinData.last_updated_at

\* the forEach body's effect on this.prices
updatedPrices(pr, data, t) ==
  [s \in DOMAIN pr |->
     IF data[s].present
     THEN PriceData(priceOf(data[s]), timestampOf(data[s], t))
     ELSE pr[s]]

\* a faulty updatedHistory: the guard is price >= 0 (C11 must reject it)
updatedHistory_ZeroAllowed(hist, data, t) ==
  [s \in DOMAIN hist |->
     IF data[s].present /\ priceOf(data[s]) >= 0
     THEN addToHistory(hist[s], priceOf(data[s]), timestampOf(data[s], t))
     ELSE hist[s]]

\* the forEach body's effect on this.priceHistory
updatedHistory(hist, data, t) ==
  [s \in DOMAIN hist |->
     IF data[s].present /\ priceOf(data[s]) > 0
     THEN addToHistory(hist[s], priceOf(data[s]), timestampOf(data[s], t))
     ELSE hist[s]]

(***************************************************************************)
(* The state machine.                                                      *)
(***************************************************************************)
Init ==
  /\ now = T0
  /\ ticks = 0
  /\ prices = initializePrices
  /\ priceHistory = initializeHistory
  /\ candleCache = [k \in CacheKeys |-> NoEntry]
  /\ pollsStarted = 0
  /\ pollsInFlight = 0
  /\ callsStarted = 0
  /\ broadcastCount = 0
  /\ lastBroadcast = initializePrices
  /\ lastPoll = "none"
  /\ calls = [c \in CallIds |-> IdleCall]
  /\ pollingInterval = 0
  /\ intervals = <<>>
  /\ startsAwaiting = 0
  /\ startCalls = 0
  /\ stopCalls = 0
  /\ stopped = FALSE
  /\ conns = <<>>
  /\ clients = <<>>
  /\ adminClients = {}
  /\ emits = 0
  /\ lastEmit = [kind \in EmitKinds |-> NoEmit]
  /\ hbLog = <<>>
  /\ wallet = [totalBalanceUsd |-> 0, availableBalanceUsd |-> 0]
  /\ transactions = <<>>
  /\ ipns = 0
  /\ authToken = "none"
  /\ mounted = TRUE
  /\ sockets = <<>>
  /\ wsRef = 0
  /\ reconnectTimeoutRef = 0
  /\ reconnectTimers = <<>>
  /\ isConnected = FALSE
  /\ tokenChanges = 0

\* a faulty scheduler: a retry delay holds the event loop, as a busy wait
\* would (C24 must reject it)
Running_BackoffBlocks == \A c \in CallIds : calls[c].pc \notin {"done", "backoff"}

\* A promise that has resolved runs its continuation (a microtask) before
\* the event loop takes the next timer or I/O event: while a getCandles call
\* has returned and its caller has not resumed, nothing else runs.
Running == \A c \in CallIds : calls[c].pc # "done"

\* the clock advances
Tick(d) ==
  /\ Running
  /\ now' = now + d
  /\ ticks' = ticks + 1
  /\ UNCHANGED <<prices, priceHistory, candleCache, pollsStarted, pollsInFlight,
                 callsStarted, broadcastCount, lastBroadcast, lastPoll, calls>>
  /\ UNCHANGED timerVars
  /\ UNCHANGED wsVars
  /\ UNCHANGED ledgerVars
  /\ UNCHANGED providerVars

\* fetchPrices() is invoked (by start() or by the polling timer) and awaits
\* fetch(url)
FetchPricesStart ==
  /\ Running
  /\ pollsStarted' = pollsStarted + 1
  /\ pollsInFlight' = pollsInFlight + 1
  /\ UNCHANGED <<now, ticks, prices, priceHistory, candleCache, callsStarted,
                 broadcastCount, lastBroadcast, lastPoll, calls>>
  /\ UNCHANGED timerVars
  /\ UNCHANGED wsVars
  /\ UNCHANGED ledgerVars
  /\ UNCHANGED providerVars

\* a faulty readsBody: a 429 is processed like a 200 (C10 must reject it)
readsBody_Also429(resp) == resp.kind \in {"ok", "429"}

\* whether fetchPrices gets past its status checks to the response body:
\* 429 returns, a rejected fetch or !response.ok goes to the catch block
readsBody(resp) == resp.kind = "ok"

\* a faulty broadcastPrices: the snapshot is the map as it was before the
\* poll's updates (C14 must reject it)
broadcastPrices_Stale(pr) == prices

\* broadcastPrices: the prices array handed to wsManager.broadcast
broadcastPrices(pr) == pr

\* fetchPrices from the arrival of the response to its end
ProcessResponse(resp) ==
  /\ lastPoll' = IF resp.kind \in {"ok", "429"} THEN resp.kind ELSE "error"
  /\ IF readsBody(resp)
     THEN /\ prices' = updatedPrices(prices, resp.data, now)
          /\ priceHistory' = updatedHistory(priceHistory, resp.data, now)
          /\ broadcastCount' = broadcastCount + 1
          /\ lastBroadcast' = broadcastPrices(prices')
     ELSE UNCHANGED <<prices, priceHistory, broadcastCount, lastBroadcast>>

\* the response of a pending fetchPrices() arrives
FetchPricesResponse(resp) ==
  /\ Running
  /\ pollsInFlight > 0
  /\ pollsInFlight' = pollsInFlight - 1
  /\ ProcessResponse(resp)
  /\ UNCHANGED <<now, ticks, candleCache, pollsStarted,
                 callsStarted, calls>>
  /\ UNCHANGED timerVars
  /\ UNCHANGED wsVars
  /\ UNCHANGED ledgerVars
  /\ UNCHANGED providerVars

\* start() is invoked: it calls fetchPrices(), which awaits fetch(url)
Start ==
  /\ Running
  /\ startCalls' = startCalls + 1
  /\ startsAwaiting' = startsAwaiting + 1
  /\ pollsStarted' = pollsStarted + 1
  /\ stopped' = FALSE
  /\ UNCHANGED <<now, ticks, prices, priceHistory, candleCache, pollsInFlight,
                 callsStarted, broadcastCount, lastBroadcast, lastPoll, calls,
                 pollingInterval, intervals, stopCalls>>
  /\ UNCHANGED wsVars
  /\ UNCHANGED ledgerVars
  /\ UNCHANGED providerVars

\* The response of the fetchPrices() that a start() awaits arrives:
\* fetchPrices runs to its end, which resolves the awaited promise, and
\* start() continues with startPolling() before any other event is taken.
StartFetchResponse(resp) ==
  /\ Running
  /\ startsAwaiting > 0
  /\ startsAwaiting' = startsAwaiting - 1
  /\ ProcessResponse(resp)
  /\ intervals' = Append(intervals, now + POLL_INTERVAL)
  /\ pollingInterval' = Len(intervals) + 1
  /\ UNCHANGED <<now, ticks, candleCache, pollsStarted, pollsInFlight,
                 callsStarted, calls, startCalls, stopCalls, stopped>>
  /\ UNCHANGED wsVars
  /\ UNCHANGED ledgerVars
  /\ UNCHANGED providerVars

\* A polling timer fires (timers fire in deadline order, no earlier than
\* the deadline) and calls fetchPrices(), which awaits fetch(url).
TimerFire(id) ==
  /\ Running
  /\ id \in 1..Len(intervals)
  /\ intervals[id] # 0
  /\ \A j \in 1..Len(intervals) : intervals[j] # 0 => intervals[id] <= intervals[j]
  /\ now' = Max2(now, intervals[id])
  /\ intervals' = [intervals EXCEPT ![id] = @ + POLL_INTERVAL]
  /\ pollsStarted' = pollsStarted + 1
  /\ pollsInFlight' = pollsInFlight + 1
  /\ UNCHANGED <<ticks, prices, priceHistory, candleCache, callsStarted,
                 broadcastCount, lastBroadcast, lastPoll, calls,
                 pollingInterval, startsAwaiting, startCalls, stopCalls, stopped>>
  /\ UNCHANGED wsVars
  /\ UNCHANGED ledgerVars
  /\ UNCHANGED providerVars

\* stop() is invoked
Stop ==
  /\ Running
  /\ stopCalls' = stopCalls + 1
  /\ stopped' = TRUE
  /\ IF pollingInterval # 0
     THEN /\ intervals' = [intervals EXCEPT ![pollingInterval] = 0]
          /\ pollingInterval' = 0
     ELSE UNCHANGED <<pollingInterval, intervals>>
  /\ UNCHANGED <<now, ticks, prices, priceHistory, candleCache, pollsStarted,
                 pollsInFlight, callsStarted, broadcastCount, lastBroadcast,
                 lastPoll, calls, startsAwaiting, startCalls>>
  /\ UNCHANGED wsVars
  /\ UNCHANGED ledgerVars
  /\ UNCHANGED providerVars

\* getCandles(symbol, interval, limit) is invoked
GetCandles(c, symbol, interval, limit) ==
  /\ Running
  /\ calls[c].pc = "idle"
  /\ callsStarted' = callsStarted + 1
  /\ LET call == [IdleCall EXCEPT
                    !.symbol = symbol, !.interval = interval, !.limit = limit,
                    !.cached = candleCache[cacheKey(symbol, interval)]]
     IN calls' = [calls EXCEPT ![c] = enterGetCandles(call, now, prices, priceHistory)]
  /\ UNCHANGED <<now, ticks, prices, priceHistory, candleCache, pollsStarted,
                 pollsInFlight, broadcastCount, lastBroadcast, lastPoll>>
  /\ UNCHANGED timerVars
  /\ UNCHANGED wsVars
  /\ UNCHANGED ledgerVars
  /\ UNCHANGED providerVars

\* The backoff timer of a call fires and the call issues its next request.
\* A timer fires no earlier than its deadline and timers fire in deadline
\* order: the clock is at the deadline, or already past it.
BackoffElapsed(c) ==
  /\ Running
  /\ calls[c].pc = "backoff"
  /\ \A d \in CallIds :
       calls[d].pc = "backoff" => calls[c].wakeAt <= calls[d].wakeAt
  /\ now' = Max2(now, calls[c].wakeAt)
  /\ calls' = [calls EXCEPT ![c].pc = "fetch", ![c].nFetch = @ + 1]
  /\ UNCHANGED <<ticks, prices, priceHistory, candleCache, pollsStarted,
                 pollsInFlight, callsStarted, broadcastCount, lastBroadcast, lastPoll>>
  /\ UNCHANGED timerVars
  /\ UNCHANGED wsVars
  /\ UNCHANGED ledgerVars
  /\ UNCHANGED providerVars

\* the response to a call's request arrives
FetchResponse(c, resp) ==
  /\ Running
  /\ calls[c].pc = "fetch"
  /\ IF resp.kind = "ok"
     THEN /\ candleCache' =
               [candleCache EXCEPT
                  ![cacheKey(calls[c].symbol, calls[c].interval)] =
                     cachedResult(mapOhlc(resp.data), now)]
          /\ calls' = [calls EXCEPT ![c] = onSuccess(@, mapOhlc(resp.data), now)]
     ELSE /\ calls' = [calls EXCEPT ![c] =
               IF resp.kind = "429"
               THEN on429(@, now, prices, priceHistory)
               ELSE onError(@, now, prices, priceHistory)]
          /\ UNCHANGED candleCache
  /\ UNCHANGED <<now, ticks, prices, priceHistory, pollsStarted, pollsInFlight,
                 callsStarted, broadcastCount, lastBroadcast, lastPoll>>
  /\ UNCHANGED timerVars
  /\ UNCHANGED wsVars
  /\ UNCHANGED ledgerVars
  /\ UNCHANGED providerVars

\* the caller that awaited getCandles resumes with the result
Settle(c) ==
  /\ calls[c].pc = "done"
  /\ calls' = [calls EXCEPT ![c] = IdleCall]
  /\ UNCHANGED <<now, ticks, prices, priceHistory, candleCache, pollsStarted,
                 pollsInFlight, callsStarted, broadcastCount, lastBroadcast, lastPoll>>
  /\ UNCHANGED timerVars
  /\ UNCHANGED wsVars
  /\ UNCHANGED ledgerVars
  /\ UNCHANGED providerVars

\* the slot a new invocation takes: the first unused one
FreeSlot(c) == \A d \in CallIds : calls[d].pc = "idle" => c <= d

\* the answers explored for overlapping invocations: a failure, or the
\* three-row body
OhlcConcResponses(interval, t) ==
  {resp \in OhlcResponses(interval, t) : resp.kind = "ok" => Len(resp.data) = 3}

\* the answers of the OHLC endpoint while it is down
OhlcFailures(interval, t) ==
  {resp \in OhlcResponses(interval, t) : resp.kind # "ok"}

(***************************************************************************)
(* The WebSocket manager (src/unnamed/part_010).  A socket is a record:    *)
(*   readyState  "open", "closing" (close(1008) sent or terminate() called, *)
(*               the close event not yet emitted) or "closed"              *)
(*   closeCode   the code the server passed to ws.close, 0 if none         *)
(*   credential  history field: "none", "invalid" or "valid", the token    *)
(*               the handshake carried                                     *)
(*   userId, isAdmin, isAlive   the fields the handler sets on the socket  *)
(*   handlers    the pong, message and close handlers are registered       *)
(*   welcomed    the "connected" message was sent                          *)
(***************************************************************************)
\* userId of a socket the handler never assigned one to
Undefined == -1

NoToken == [kind |-> "none", userId |-> Undefined, isAdmin |-> FALSE]

\* what a handshake can carry: no token, or a token with a payload whose
\* signature verifies ("valid") or does not ("invalid")
Tokens ==
  {NoToken} \cup [kind : {"valid", "invalid"}, userId : UserIds, isAdmin : BOOLEAN]

\* jwt.verify(token, secret) returns the payload, or throws
jwtVerify_Unsigned(token) == token.kind # "none"

jwtVerify(token) == token.kind = "valid"

\* if (ws.userId): the truthiness of a number
truthy(n) == n # 0 /\ n # Undefined

\* every socket some identity's set holds
Registered == UNION {clients[u] : u \in DOMAIN clients}

\* this.wss.clients: the sockets whose close event has not been emitted
wssClients == {ws \in 1..Len(conns) : conns[ws].readyState \in {"open", "closing"}}

\* ws.close(1008, reason) on a socket the handler did not authenticate
rejected(kind) ==
  [readyState |-> "closing", closeCode |-> 1008, credential |-> kind,
   userId |-> Undefined, isAdmin |-> FALSE, isAlive |-> "undefined",
   handlers |-> FALSE, welcomed |-> FALSE]

\* the socket after the try block has run to its end
accepted(token) ==
  [readyState |-> "open", closeCode |-> 0, credential |-> token.kind,
   userId |-> token.userId, isAdmin |-> token.isAdmin, isAlive |-> "true",
   handlers |-> TRUE, welcomed |-> TRUE]

\* this.clients after has / set / get(...).add(ws)
addClient(ws, userId) ==
  IF userId \in DOMAIN clients
  THEN [clients EXCEPT ![userId] = @ \cup {ws}]
  ELSE [u \in DOMAIN clients \cup {userId} |->
          IF u = userId THEN {ws} ELSE clients[u]]

\* removeClient(ws): the registry and the admin set it leaves
removeClient(ws) ==
  LET userId == conns[ws].userId
      left == IF truthy(userId) /\ userId \in DOMAIN clients
              THEN IF clients[userId] \ {ws} = {}
                   THEN [u \in DOMAIN clients \ {userId} |-> clients[u]]
                   ELSE [clients EXCEPT ![userId] = @ \ {ws}]
              ELSE clients
  IN  [clients |-> left,
       adminClients |-> IF conns[ws].isAdmin THEN adminClients \ {ws}
                                             ELSE adminClients]

\* a faulty sendToClient: sends whatever the socket's readyState (C27 must
\* reject it)
sendToClient_AnyState(targets) == Cardinality(targets)

\* sendToClient over a set of sockets: the number of messages sent
sendToClient(targets) ==
  Cardinality({ws \in targets : conns[ws].readyState = "open"})

\* this.clients after emitToUser's this.clients.get(userId)
clientsAfterGet_Create(userId) ==
  IF userId \in DOMAIN clients THEN clients
  ELSE [u \in DOMAIN clients \cup {userId} |->
          IF u = userId THEN {} ELSE clients[u]]

clientsAfterGet(userId) == clients

\* the connection handler runs for a new socket
Connect(token) ==
  LET ws == Len(conns) + 1 IN
  /\ IF token.kind = "none"
     THEN /\ conns' = Append(conns, rejected("none"))
          /\ UNCHANGED <<clients, adminClients>>
     ELSE IF jwtVerify(token)
          THEN /\ conns' = Append(conns, accepted(token))
               /\ adminClients' = IF token.isAdmin THEN adminClients \cup {ws}
                                                   ELSE adminClients
               /\ clients' = addClient(ws, token.userId)
          ELSE /\ conns' = Append(conns, rejected(token.kind))
               /\ UNCHANGED <<clients, adminClients>>
  /\ UNCHANGED <<emits, lastEmit>>
  /\ UNCHANGED serviceVars
  /\ UNCHANGED ledgerVars
  /\ UNCHANGED providerVars

\* a pong frame arrives
Pong(ws) ==
  /\ conns[ws].readyState = "open"
  /\ conns[ws].handlers
  /\ conns' = [conns EXCEPT ![ws].isAlive = "true"]
  /\ UNCHANGED <<clients, adminClients, emits, lastEmit>>
  /\ UNCHANGED serviceVars
  /\ UNCHANGED ledgerVars
  /\ UNCHANGED providerVars

\* a faulty heartbeat: pings without clearing isAlive (C23 must reject it)
heartbeat_NeverMarks(sock) ==
  IF sock.isAlive = "false"
  THEN [sock EXCEPT !.readyState = "closing"]
  ELSE sock

\* the heartbeat callback for one socket of wss.clients
heartbeat(sock) ==
  IF sock.isAlive = "false"
  THEN [sock EXCEPT !.readyState = "closing"]
  ELSE [sock EXCEPT !.isAlive = "false"]

\* the heartbeat timer fires
Heartbeat ==
  /\ conns' = [ws \in 1..Len(conns) |->
                 IF ws \in wssClients THEN heartbeat(conns[ws]) ELSE conns[ws]]
  /\ UNCHANGED <<clients, adminClients, emits, lastEmit>>
  /\ UNCHANGED serviceVars
  /\ UNCHANGED ledgerVars
  /\ UNCHANGED providerVars

\* the socket emits its close event
onClose(ws) ==
  /\ conns' = [conns EXCEPT ![ws].readyState = "closed"]
  /\ IF conns[ws].handlers
     THEN /\ clients' = removeClient(ws).clients
          /\ adminClients' = removeClient(ws).adminClients
     ELSE UNCHANGED <<clients, adminClients>>
  /\ UNCHANGED <<emits, lastEmit, hbLog>>
  /\ UNCHANGED serviceVars
  /\ UNCHANGED ledgerVars
  /\ UNCHANGED providerVars

\* the client disconnects
ClientDisconnect(ws) ==
  /\ conns[ws].readyState = "open"
  /\ onClose(ws)

\* a close the server began (close(1008) or terminate()) completes
CloseCompleted(ws) ==
  /\ conns[ws].readyState = "closing"
  /\ onClose(ws)

\* emitToUser(userId, eventType, payload)
EmitToUser(userId) ==
  LET hasTarget == userId \in DOMAIN clients /\ clients[userId] # {} IN
  /\ emits' = emits + 1
  /\ clients' = clientsAfterGet(userId)
  /\ lastEmit' = [lastEmit EXCEPT !["user"] =
                    [called |-> TRUE, hadTarget |-> hasTarget,
                     sent |-> IF hasTarget THEN sendToClient(clients[userId])
                                           ELSE 0]]
  /\ UNCHANGED <<conns, adminClients, hbLog>>
  /\ UNCHANGED serviceVars
  /\ UNCHANGED ledgerVars
  /\ UNCHANGED providerVars

\* emitToAdmins(eventType, payload)
EmitToAdmins ==
  /\ emits' = emits + 1
  /\ lastEmit' = [lastEmit EXCEPT !["admins"] =
                    [called |-> TRUE, hadTarget |-> adminClients # {},
                     sent |-> IF adminClients = {} THEN 0
                              ELSE sendToClient(adminClients)]]
  /\ UNCHANGED <<conns, clients, adminClients, hbLog>>
  /\ UNCHANGED serviceVars
  /\ UNCHANGED ledgerVars
  /\ UNCHANGED providerVars

(***************************************************************************)
(* The ledger routes (src/server/routes.ts) over the wallets and           *)
(* transactions tables.  The storage methods are synchronous SQLite        *)
(* statements behind async functions: every await of a handler resumes in  *)
(* the microtask queue, before the next request is taken, so a handler is  *)
(* one step.  One user, whose wallet row exists from registration.  A      *)
(* transaction carries two history fields: credits and debits, the number  *)
(* of times its amount was added to and taken from the wallet.             *)
(***************************************************************************)
\* the user of the wallet (users.id)
LedgerUser == 1

\* storage.createTransaction: the inserted row (status defaults to pending)
createTransaction(type, amountUsd) ==
  [type |-> type, amountUsd |-> amountUsd, status |-> "pending",
   credits |-> 0, debits |-> 0]

\* storage.updateWalletBalance with both balances moved by delta
updateWalletBalance(w, delta) ==
  [totalBalanceUsd |-> w.totalBalanceUsd + delta,
   availableBalanceUsd |-> w.availableBalanceUsd + delta]

\* the status the callback handler writes
ipnStatus(payment_status) ==
  IF payment_status = "finished" THEN "completed"
  ELSE IF payment_status = "failed" THEN "rejected"
  ELSE "pending"

\* wsManager.emitDepositUpdate: emitToUser, then emitToAdmins
emitDepositUpdate(userId) ==
  LET hasTarget == userId \in DOMAIN clients /\ clients[userId] # {} IN
  /\ emits' = emits + 2
  /\ lastEmit' =
       [kind \in EmitKinds |->
          IF kind = "user"
          THEN [called |-> TRUE, hadTarget |-> hasTarget,
                sent |-> IF hasTarget THEN sendToClient(clients[userId]) ELSE 0]
          ELSE [called |-> TRUE, hadTarget |-> adminClients # {},
                sent |-> IF adminClients = {} THEN 0
                         ELSE sendToClient(adminClients)]]
  /\ UNCHANGED <<conns, clients, adminClients, hbLog>>

\* POST /api/deposits/create
CreateDeposit(amountUsd) ==
  /\ transactions' = Append(transactions, createTransaction("deposit", amountUsd))
  /\ UNCHANGED <<wallet, ipns>>
  /\ UNCHANGED serviceVars
  /\ UNCHANGED providerVars
  /\ UNCHANGED wsVars

\* POST /api/transactions/withdraw
Withdraw(amountUsd) ==
  /\ IF wallet.availableBalanceUsd < amountUsd
     THEN UNCHANGED transactions
     ELSE transactions' =
            Append(transactions, createTransaction("withdrawal", amountUsd))
  /\ UNCHANGED <<wallet, ipns>>
  /\ UNCHANGED serviceVars
  /\ UNCHANGED providerVars
  /\ UNCHANGED wsVars

\* POST /api/admin/transactions/:id/approve
Approve(id) ==
  /\ id \in 1..Len(transactions)
  /\ IF transactions[id].status # "pending"
     THEN UNCHANGED <<wallet, transactions>>
     ELSE /\ transactions' = [transactions EXCEPT ![id].status = "completed",
                                                  ![id].debits = @ + 1]
          /\ wallet' = updateWalletBalance(wallet, -transactions[id].amountUsd)
  /\ UNCHANGED ipns
  /\ UNCHANGED serviceVars
  /\ UNCHANGED providerVars
  /\ UNCHANGED wsVars

\* POST /api/admin/transactions/:id/reject
Reject(id) ==
  /\ id \in 1..Len(transactions)
  /\ transactions' = [transactions EXCEPT ![id].status = "rejected"]
  /\ UNCHANGED <<wallet, ipns>>
  /\ UNCHANGED serviceVars
  /\ UNCHANGED providerVars
  /\ UNCHANGED wsVars

\* POST /api/nowpayments/ipn with a valid signature, for the payment of
\* deposit id
Ipn(id, payment_status) ==
  /\ id \in 1..Len(transactions)
  /\ transactions[id].type = "deposit"
  /\ ipns' = ipns + 1
  /\ IF payment_status = "finished"
     THEN /\ transactions' =
               [transactions EXCEPT ![id].status = ipnStatus(payment_status),
                                    ![id].credits = @ + 1]
          /\ wallet' = updateWalletBalance(wallet, transactions[id].amountUsd)
          /\ emitDepositUpdate(LedgerUser)
     ELSE /\ transactions' =
               [transactions EXCEPT ![id].status = ipnStatus(payment_status)]
          /\ UNCHANGED wallet
          /\ UNCHANGED wsVars
  /\ UNCHANGED serviceVars
  /\ UNCHANGED providerVars

(***************************************************************************)
(* The client's PriceProvider (src/client/src/lib/auth.tsx): the effect    *)
(* that keeps a WebSocket to /ws and reconnects 5 s after a close.  A      *)
(* socket is a record of the token in its URL and its readyState; a timer  *)
(* is a record of the token its callback's connectWebSocket closes over    *)
(* and whether it is pending.                                              *)
(***************************************************************************)
\* what connectWebSocket() of the effect run with token tok does to the
\* sockets, wsRef and isConnected it finds
connectWebSocket(tok, socks, ref, connected) ==
  IF tok = "none"
  THEN [sockets |-> socks, wsRef |-> ref, isConnected |-> FALSE]
  ELSE [sockets |-> Append(socks, [token |-> tok, readyState |-> "connecting"]),
        wsRef |-> Len(socks) + 1, isConnected |-> connected]

\* clearTimeout(reconnectTimeoutRef.current) if it is set
clearReconnect ==
  IF reconnectTimeoutRef # 0
  THEN [reconnectTimers EXCEPT ![reconnectTimeoutRef].pending = FALSE]
  ELSE reconnectTimers

\* wsRef.current.close() of the cleanup: the close event comes later
closeCurrent ==
  IF wsRef # 0 /\ sockets[wsRef].readyState \in {"connecting", "open"}
  THEN [sockets EXCEPT ![wsRef].readyState = "closing"]
  ELSE sockets

\* the token changes (login, logout): React runs the cleanup of the
\* previous effect, then the effect with the new token
SetToken(tok) ==
  /\ mounted
  /\ tok # authToken
  /\ authToken' = tok
  /\ tokenChanges' = tokenChanges + 1
  /\ reconnectTimers' = clearReconnect
  /\ reconnectTimeoutRef' = 0
  /\ LET after == connectWebSocket(tok, closeCurrent, 0, isConnected)
     IN /\ sockets' = after.sockets
        /\ wsRef' = after.wsRef
        /\ isConnected' = after.isConnected
  /\ UNCHANGED mounted
  /\ UNCHANGED serviceVars
  /\ UNCHANGED wsVars
  /\ UNCHANGED ledgerVars

\* the provider unmounts: the cleanup runs
Unmount ==
  /\ mounted
  /\ mounted' = FALSE
  /\ reconnectTimers' = clearReconnect
  /\ reconnectTimeoutRef' = 0
  /\ sockets' = closeCurrent
  /\ wsRef' = 0
  /\ UNCHANGED <<authToken, isConnected, tokenChanges>>
  /\ UNCHANGED serviceVars
  /\ UNCHANGED wsVars
  /\ UNCHANGED ledgerVars

\* ws.onopen
SocketOpen(i) ==
  /\ sockets[i].readyState = "connecting"
  /\ sockets' = [sockets EXCEPT ![i].readyState = "open"]
  /\ isConnected' = TRUE
  /\ reconnectTimers' = clearReconnect
  /\ reconnectTimeoutRef' = 0
  /\ UNCHANGED <<authToken, mounted, wsRef, tokenChanges>>
  /\ UNCHANGED serviceVars
  /\ UNCHANGED wsVars
  /\ UNCHANGED ledgerVars

\* ws.onclose: the connection failed, was closed by the server, or the
\* close the cleanup began has completed
SocketClose(i) ==
  /\ sockets[i].readyState \in {"connecting", "open", "closing"}
  /\ sockets' = [sockets EXCEPT ![i].readyState = "closed"]
  /\ isConnected' = FALSE
  /\ IF reconnectTimeoutRef = 0
     THEN /\ reconnectTimers' =
               Append(reconnectTimers, [token |-> sockets[i].token, pending |-> TRUE])
          /\ reconnectTimeoutRef' = Len(reconnectTimers) + 1
     ELSE UNCHANGED <<reconnectTimers, reconnectTimeoutRef>>
  /\ UNCHANGED <<authToken, mounted, wsRef, tokenChanges>>
  /\ UNCHANGED serviceVars
  /\ UNCHANGED wsVars
  /\ UNCHANGED ledgerVars

\* the reconnect timer fires: its callback clears the ref and calls the
\* connectWebSocket it closes over
ReconnectFire(j) ==
  /\ reconnectTimers[j].pending
  /\ reconnectTimers' = [reconnectTimers EXCEPT ![j].pending = FALSE]
  /\ reconnectTimeoutRef' = 0
  /\ LET after == connectWebSocket(reconnectTimers[j].token, sockets, wsRef,
                                   isConnected)
     IN /\ sockets' = after.sockets
        /\ wsRef' = after.wsRef
        /\ isConnected' = after.isConnected
  /\ UNCHANGED <<authToken, mounted, tokenChanges>>
  /\ UNCHANGED serviceVars
  /\ UNCHANGED wsVars
  /\ UNCHANGED ledgerVars

(***************************************************************************)
(* Spec: getCandles invocations made one after the other (an invocation    *)
(* starts when the previous one has returned), the poller not started.     *)
(* Once a chart is cached the invocations of the run are for that chart;   *)
(* SpecConc mixes charts.                                                  *)
(***************************************************************************)
SameChart(a) ==
  \A k \in CacheKeys : candleCache[k].present => k = cacheKey(a[1], a[2])

Next ==
  \/ \E d \in TickSteps : ticks < MaxTicks /\ Tick(d)
  \/ \E a \in CallArgs :
       callsStarted < MaxCalls /\ SameChart(a) /\ GetCandles(1, a[1], a[2], a[3])
  \/ BackoffElapsed(1)
  \/ \E resp \in OhlcResponses(calls[1].interval, now) : FetchResponse(1, resp)
  \/ Settle(1)

Spec == Init /\ [][Next]_vars

(***************************************************************************)
(* SpecDown: the poller runs; getCandles is invoked while every request to *)
(* the OHLC endpoint fails.  Polls and invocations take turns (getCandles   *)
(* reads the history and the price map only after its last attempt), and   *)
(* the long advance of the clock happens while nothing is in progress.     *)
(***************************************************************************)
Quiet == pollsInFlight = 0 /\ \A c \in CallIds : calls[c].pc = "idle"

NextDown ==
  \/ \E d \in DownTickSteps : ticks < DownTicks /\ Quiet /\ Tick(d)
  \/ pollsStarted < DownPolls /\ Quiet /\ FetchPricesStart
  \/ \E resp \in PriceResponses(DownQuotes, now) : FetchPricesResponse(resp)
  \/ \E a \in DownArgs :
       callsStarted < DownCalls /\ Quiet /\ GetCandles(1, a[1], a[2], a[3])
  \/ BackoffElapsed(1)
  \/ \E resp \in OhlcFailures(calls[1].interval, now) : FetchResponse(1, resp)
  \/ Settle(1)

SpecDown == Init /\ [][NextDown]_vars

(***************************************************************************)
(* SpecConc: getCandles invocations that overlap in time, within the first *)
(* minute.                                                                 *)
(***************************************************************************)
NextConc ==
  \/ \E c \in CallIds, a \in ConcArgs :
       callsStarted < ConcCalls /\ FreeSlot(c) /\ GetCandles(c, a[1], a[2], a[3])
  \/ \E c \in CallIds : BackoffElapsed(c)
  \/ \E c \in CallIds :
       \E resp \in OhlcConcResponses(calls[c].interval, now) : FetchResponse(c, resp)
  \/ \E c \in CallIds : Settle(c)

SpecConc == Init /\ [][NextConc]_vars

(***************************************************************************)
(* SpecWait: a getCandles invocation, and the polls of the scheduler and   *)
(* the further invocations (one per slot of CallIds) that start while an   *)
(* invocation waits in a retry delay.                                      *)
(***************************************************************************)
Waiting == \E c \in CallIds : calls[c].pc = "backoff"

NextWait ==
  \/ \E c \in CallIds, a \in ConcArgs :
       /\ c = callsStarted + 1
       /\ callsStarted = 0 \/ Waiting
       /\ GetCandles(c, a[1], a[2], a[3])
  \/ \E c \in CallIds : BackoffElapsed(c)
  \/ \E c \in CallIds :
       \E resp \in OhlcConcResponses(calls[c].interval, now) : FetchResponse(c, resp)
  \/ \E c \in CallIds : Settle(c)
  \/ pollsStarted < WaitPolls /\ Waiting /\ FetchPricesStart
  \/ \E resp \in PriceResponses(WaitQuotes, now) : FetchPricesResponse(resp)

SpecWait == Init /\ [][NextWait]_vars

(***************************************************************************)
(* SpecPoll: the poller alone, with every kind of spot price.              *)
(***************************************************************************)
NextPoll ==
  \/ \E d \in PollTickSteps : ticks < PollTicks /\ Tick(d)
  \/ pollsStarted < PollPolls /\ FetchPricesStart
  \/ \E resp \in PriceResponses(PollQuotes, now) : FetchPricesResponse(resp)

SpecPoll == Init /\ [][NextPoll]_vars

(***************************************************************************)
(* SpecTimer: start(), the polling timer it schedules, and stop().         *)
(***************************************************************************)
NextTimer ==
  \/ startCalls < TimerStarts /\ Start
  \/ \E resp \in PriceResponses(TimerQuotes, now) : StartFetchResponse(resp)
  \/ \E id \in 1..Len(intervals) : pollsStarted < TimerPolls /\ TimerFire(id)
  \/ \E resp \in PriceResponses(TimerQuotes, now) : FetchPricesResponse(resp)
  \/ stopCalls < TimerStops /\ Stop

SpecTimer == Init /\ [][NextTimer]_vars

(***************************************************************************)
(* SpecWs: handshakes, pongs, heartbeats, disconnects and emits of the     *)
(* WebSocket manager.                                                      *)
(***************************************************************************)
NextWs ==
  \/ \E token \in Tokens : Len(conns) < MaxConns /\ Connect(token) /\ UNCHANGED hbLog
  \/ \E ws \in 1..Len(conns) : Pong(ws) /\ UNCHANGED hbLog
  \/ Heartbeat /\ UNCHANGED hbLog
  \/ \E ws \in 1..Len(conns) : ClientDisconnect(ws)
  \/ \E ws \in 1..Len(conns) : CloseCompleted(ws)
  \/ \E userId \in UserIds : emits < MaxEmits /\ EmitToUser(userId)
  \/ emits < MaxEmits /\ EmitToAdmins

SpecWs == Init /\ [][NextWs]_vars

(***************************************************************************)
(* SpecLedger: deposit requests, payment callbacks, withdrawal requests,   *)
(* approvals and rejections.                                               *)
(***************************************************************************)
NextLedger ==
  \/ \E amountUsd \in Amounts :
       Len(transactions) < MaxTx /\ CreateDeposit(amountUsd)
  \/ \E amountUsd \in Amounts :
       Len(transactions) < MaxTx /\ Withdraw(amountUsd)
  \/ \E id \in 1..Len(transactions) : Approve(id)
  \/ \E id \in 1..Len(transactions) : Reject(id)
  \/ \E id \in 1..Len(transactions), payment_status \in PaymentStatuses :
       ipns < MaxIpn /\ Ipn(id, payment_status)

SpecLedger == Init /\ [][NextLedger]_vars

(***************************************************************************)
(* SpecProvider: token changes, unmount, socket events and reconnect       *)
(* timers of the client's PriceProvider.                                   *)
(***************************************************************************)
NextProvider ==
  \/ \E tok \in AuthTokens :
       /\ tokenChanges < MaxTokenChanges
       /\ Len(sockets) < MaxSockets
       /\ SetToken(tok)
  \/ Unmount
  \/ \E i \in 1..Len(sockets) : SocketOpen(i)
  \/ \E i \in 1..Len(sockets) : SocketClose(i)
  \/ \E j \in 1..Len(reconnectTimers) :
       Len(sockets) < MaxSockets /\ ReconnectFire(j)

SpecProvider == Init /\ [][NextProvider]_vars

(***************************************************************************)
(* SpecHb: handshakes, pongs, heartbeat checks and closes, with the        *)
(* history variable hbLog: for every socket, whether a heartbeat check has *)
(* examined it while open, and whether a pong frame of it arrived since   *)
(* the latest such check.                                                  *)
(***************************************************************************)
NoPing == [checked |-> FALSE, ponged |-> FALSE]

NextHb ==
  \/ \E token \in Tokens :
       /\ Len(conns) < HbConns
       /\ Connect(token)
       /\ hbLog' = Append(hbLog, NoPing)
  \/ \E ws \in 1..Len(conns) :
       /\ Pong(ws)
       /\ hbLog' = [hbLog EXCEPT ![ws].ponged = TRUE]
  \/ /\ Heartbeat
     /\ hbLog' = [ws \in 1..Len(hbLog) |->
                    IF ws \in wssClients /\ conns[ws].readyState = "open"
                    THEN [checked |-> TRUE, ponged |-> FALSE]
                    ELSE hbLog[ws]]
  \/ \E ws \in 1..Len(conns) : ClientDisconnect(ws)
  \/ \E ws \in 1..Len(conns) : CloseCompleted(ws)

SpecHb == Init /\ [][NextHb]_vars

(***************************************************************************)
(* Properties of getCandles.                                               *)
(***************************************************************************)
\* the invocations that have just returned
Returned == {c \in CallIds : calls[c].pc = "done"}

keyOf(call) == cacheKey(call.symbol, call.interval)

\* every attempt of the invocation ended in a failure
Exhausted(call) == call.failures = maxRetries

\* the lookback of each interval of the chart, in seconds; -1: none
Lookback(interval) ==
  CASE interval = "1H" -> 3600
    [] interval = "24H" -> 86400
    [] interval = "7D" -> 604800
    [] interval = "30D" -> 2592000
    [] interval = "90D" -> 7776000
    [] interval = "1Y" -> 31536000
    [] OTHER -> -1

\* the last n elements of a sequence (all of it when it is shorter)
LastN(arr, n) ==
  SubSeq(arr, Len(arr) - (IF n < Len(arr) THEN n ELSE Len(arr)) + 1, Len(arr))

\* candles no older than the interval's lookback at time t, then the last
\* `limit` of them
WindowedLast(candles, interval, limit, t) ==
  LastN(SelectSeq(candles, LAMBDA candle :
                    Lookback(interval) = -1 \/ candle.time >= t - Lookback(interval)),
        limit)

WellFormed(candle) ==
  /\ candle.low <= candle.open /\ candle.low <= candle.close
  /\ candle.high >= candle.open /\ candle.high >= candle.close

\* C1 (as stated): every invocation of getCandles that has returned,
\* whatever the upstream answered, returned at least one candle.
C1_AtLeastOneCandle ==
  \A c \in Returned : Len(calls[c].result) >= 1

\* C2 (as stated): when an invocation returns with all its attempts failed
\* and the cache holds an entry for its key at that moment, it returns the
\* candles of that entry (filtered and trimmed), not a history, synthetic or
\* zero candle.
C2_StaleCacheFallback ==
  [][\A c \in CallIds :
       LET call == calls'[c]
           entry == candleCache[keyOf(call)]
       IN (calls[c].pc # "done" /\ call.pc = "done" /\ Exhausted(call)
             /\ entry.present)
          => /\ call.tier = "stale"
             /\ call.result =
                  WindowedLast(entry.data, call.interval, call.limit, now)]_vars

\* the history points of the invocation's symbol inside the interval's window
PointsInWindow(call) ==
  SelectSeq(historyOf(priceHistory, call.symbol),
            LAMBDA pt : pt.timestamp >= now - intervalToMinutes(call.interval) * 60)

\* the start of the bucket a history point falls in
BucketOf(pt, interval) ==
  pt.timestamp - (pt.timestamp % getCandleIntervalMs(interval))

\* the preconditions of the history tier: all attempts failed, no cache
\* entry for the key, two or more points in the window
HistoryCase(call) ==
  /\ Exhausted(call)
  /\ ~candleCache[keyOf(call)].present
  /\ Len(PointsInWindow(call)) >= 2

GroupStarts(h, interval) ==
  {i \in 1..Len(h) :
     i = 1 \/ BucketOf(h[i], interval) # BucketOf(h[i - 1], interval)}

\* the index at which the group starting at i ends
GroupEnd(h, interval, i) ==
  CHOOSE j \in i..Len(h) :
    /\ \A m \in i..j : BucketOf(h[m], interval) = BucketOf(h[i], interval)
    /\ j = Len(h) \/ BucketOf(h[j + 1], interval) # BucketOf(h[i], interval)

\* the k-th group start, counted from 1
NthStart(h, interval, k) ==
  CHOOSE i \in GroupStarts(h, interval) :
    Cardinality({j \in GroupStarts(h, interval) : j <= i}) = k

\* candle is the candle of the group of h that starts at i
IsGroupCandle(candle, h, interval, i) ==
  LET ps == {h[m].price : m \in i..GroupEnd(h, interval, i)}
  IN /\ candle.time = BucketOf(h[i], interval)
     /\ candle.open = h[i].price
     /\ candle.close = h[GroupEnd(h, interval, i)].price
     /\ candle.high \in ps /\ \A q \in ps : q <= candle.high
     /\ candle.low \in ps /\ \A q \in ps : q >= candle.low
     /\ candle.volume = 0

C4_OneFetchPerLifetime ==
  \A c, d \in CallIds :
    (/\ c # d
     /\ calls[c].pc # "idle" /\ calls[d].pc # "idle"
     /\ keyOf(calls[c]) = keyOf(calls[d])
     /\ calls[c].failures = 0 /\ calls[d].failures = 0)
    => calls[c].nFetch + calls[d].nFetch <= 1

\* C5: an invocation that starts when the cache holds an entry for its key
\* younger than 60 s returns at once, without an upstream request, leaves
\* the cache as it is, and returns the entry's candles that are inside the
\* interval's window, trimmed to the last `limit`.
C5_FreshCacheHit ==
  [][\A c \in CallIds :
       LET call == calls'[c]
           entry == candleCache[keyOf(call)]
       IN (calls[c].pc = "idle" /\ call.pc # "idle"
             /\ entry.present /\ now - entry.timestamp < 60)
          => /\ call.pc = "done"
             /\ call.nFetch = 0
             /\ candleCache' = candleCache
             /\ call.result =
                  WindowedLast(entry.data, call.interval, call.limit, now)]_vars

\* C5's case: a cache hit whose result is shorter than the entry
C5_Witness ==
  \E c \in Returned :
    /\ calls[c].tier = "fresh"
    /\ calls[c].nFetch = 0
    /\ Len(calls[c].result) >= 1
    /\ Len(calls[c].result) < Len(candleCache[keyOf(calls[c])].data)

\* C6: when all attempts failed, the cache has no entry for the key, the
\* history has no point in the window and the price map holds price p for
\* the symbol, the invocation returns exactly one candle with
\* open = high = low = close = p.
C6_SyntheticCandle ==
  \A c \in Returned :
    LET call == calls[c]
        s == toUpperCase(call.symbol)
    IN (/\ Exhausted(call)
        /\ ~candleCache[keyOf(call)].present
        /\ Len(PointsInWindow(call)) = 0
        /\ s \in DOMAIN prices)
       => /\ Len(call.result) = 1
          /\ call.result[1].open = prices[s].price
          /\ call.result[1].high = prices[s].price
          /\ call.result[1].low = prices[s].price
          /\ call.result[1].close = prices[s].price

\* C6's case: a polled price of 2600 whose history point has left the window
C6_Witness ==
  \E c \in Returned :
    /\ Exhausted(calls[c])
    /\ calls[c].symbol = "ETH"
    /\ Len(PointsInWindow(calls[c])) = 0
    /\ Len(priceHistory["ETH"]) > 0
    /\ prices["ETH"].price = 2600
    /\ calls[c].result[1].close = 2600

\* the symbol of the invocation was never observed: it is not tracked, or
\* no poll has succeeded yet
NeverObserved(call) ==
  \/ toUpperCase(call.symbol) \notin DOMAIN prices
  \/ broadcastCount = 0

\* C7 (as stated): for a symbol never observed, with no cache entry and all
\* attempts failed, the invocation returns exactly one candle all of whose
\* fields are zero.
C7_AllFieldsZero ==
  \A c \in Returned :
    (NeverObserved(calls[c]) /\ Exhausted(calls[c])
       /\ ~candleCache[keyOf(calls[c])].present)
    => /\ Len(calls[c].result) = 1
       /\ calls[c].result[1] =
            [time |-> 0, open |-> 0, high |-> 0, low |-> 0, close |-> 0,
             volume |-> 0]

\* C7 (amended): for a symbol never observed, with no cache entry and all
\* attempts failed, the invocation returns exactly one candle whose open,
\* high, low, close and volume are zero and whose time is the current time.
C7_ZeroPricedCandle ==
  \A c \in Returned :
    (NeverObserved(calls[c]) /\ Exhausted(calls[c])
       /\ ~candleCache[keyOf(calls[c])].present)
    => /\ Len(calls[c].result) = 1
       /\ calls[c].result[1] =
            [time |-> now, open |-> 0, high |-> 0, low |-> 0, close |-> 0,
             volume |-> 0]

\* C7's case: a symbol that is not tracked, after a successful poll
C7_Witness ==
  \E c \in Returned :
    /\ calls[c].symbol = "DOGE"
    /\ Exhausted(calls[c])
    /\ broadcastCount > 0
    /\ Len(calls[c].result) = 1
    /\ calls[c].result[1].time = now

\* C8 (as stated): every candle an invocation returns has its low at or
\* below open and close and its high at or above them.
C8_CandlesWellFormed ==
  \A c \in Returned :
    \A k \in 1..Len(calls[c].result) : WellFormed(calls[c].result[k])

\* C9 (as stated): for the intervals 1H, 24H, 7D, 30D, 90D and 1Y every
\* candle an invocation returns is no older than the interval's lookback.
C9_CandlesInsideWindow ==
  \A c \in Returned :
    Lookback(calls[c].interval) # -1 =>
      \A k \in 1..Len(calls[c].result) :
        calls[c].result[k].time >= now - Lookback(calls[c].interval)

(***************************************************************************)
(* Properties of the poller.                                               *)
(***************************************************************************)
\* C10: the step in which a poll receives HTTP 429 changes neither the
\* price map nor a history buffer, sends no broadcast and starts no further
\* request; getPrice answers as before.
C10_RateLimitedPollKeepsPrices ==
  [][(\E resp \in PriceResponses(PollQuotes, now) :
        resp.kind = "429" /\ FetchPricesResponse(resp))
     => /\ UNCHANGED <<prices, priceHistory, broadcastCount, lastBroadcast>>
        /\ pollsStarted' = pollsStarted
        /\ pollsInFlight' = pollsInFlight - 1
        /\ \A s \in {"ETH", "eth", "BTC", "DOGE"} :
             getPrice(prices', s) = getPrice(prices, s)]_vars

\* C10's case: a poll set the price of ETH to 50000, the clock advanced,
\* and the latest poll was answered with 429
C10_Witness ==
  /\ lastPoll = "429"
  /\ broadcastCount > 0
  /\ now > T0
  /\ getPrice(prices, "ETH").price = 50000
  /\ getPrice(prices, "ETH").timestamp <= T0

\* C11: a poll whose price for a symbol is zero or negative leaves that
\* symbol's history buffer as it was.
C11_NonPositivePriceNotBuffered ==
  [][\A resp \in PriceResponses(PollQuotes, now) :
       (resp.kind = "ok" /\ FetchPricesResponse(resp))
       => \A s \in TrackedSymbols :
            (resp.data[s].present /\ resp.data[s].usd <= 0)
            => priceHistory'[s] = priceHistory[s]]_vars

\* C11's case: a poll stored a point for ETH and a later poll reported a
\* price of zero or less
C11_Witness ==
  /\ Len(priceHistory["ETH"]) = 1
  /\ prices["ETH"].price <= 0
  /\ broadcastCount = 2

\* the indices of the buffered points of a symbol that are no older than
\* `minutes` minutes
RecentIndices(symbol, minutes) ==
  {i \in 1..Len(historyOf(priceHistory, symbol)) :
     historyOf(priceHistory, symbol)[i].timestamp >= now - minutes * 60}

\* the k-th smallest element of a set of indices
NthIndex(indices, k) ==
  CHOOSE i \in indices : Cardinality({j \in indices : j <= i}) = k

\* C12: getHistoricalPrices(symbol, minutes) returns exactly the buffered
\* points of the symbol with timestamp >= now - minutes * 60 s, in insertion
\* order; with minutes = 1440 no returned point is older than 24 hours.
C12_QueryReturnsWindow ==
  \A symbol \in QuerySymbols, minutes \in QueryMinutes :
    LET r == getHistoricalPrices(priceHistory, symbol, minutes, now)
        keep == RecentIndices(symbol, minutes)
    IN /\ Len(r) = Cardinality(keep)
       /\ \A k \in 1..Len(r) :
            r[k] = historyOf(priceHistory, symbol)[NthIndex(keep, k)]
       /\ minutes = 1440 =>
            \A k \in 1..Len(r) : r[k].timestamp >= now - 24 * 60 * 60

\* C12's case: the buffer of ETH holds a point older than 24 hours and a
\* younger one; the query over 1440 minutes returns the younger one only
C12_Witness ==
  /\ Len(priceHistory["ETH"]) = 2
  /\ priceHistory["ETH"][1].timestamp < now - 24 * 60 * 60
  /\ Len(getHistoricalPrices(priceHistory, "eth", 1440, now)) = 1

\* the tiers that hand out degraded data
DegradedTiers == {"stale", "history", "synthetic", "zero"}

\* C18: an invocation issues at most four upstream requests; after its
\* first, second and third failed request it waits 1 s, 2 s and 5 s, and the
\* next request is issued no earlier than the end of the wait; with the
\* fourth failure it returns a degraded result.
C18_BoundedRetries ==
  [][\A c \in CallIds :
       /\ calls'[c].nFetch <= 4
       /\ (calls[c].pc # "backoff" /\ calls'[c].pc = "backoff")
          => /\ calls'[c].failures = calls'[c].nFetch
             /\ calls'[c].failures \in 1..3
             /\ calls'[c].wakeAt - now = <<1, 2, 5>>[calls'[c].failures]
       /\ (calls[c].pc = "backoff" /\ calls'[c].pc # "backoff")
          => /\ calls'[c].pc = "fetch"
             /\ calls'[c].nFetch = calls[c].nFetch + 1
             /\ now' >= calls[c].wakeAt
       /\ (calls[c].pc = "fetch" /\ calls[c].nFetch = 4
             /\ calls'[c].failures > calls[c].failures)
          => /\ calls'[c].pc = "done"
             /\ calls'[c].tier \in DegradedTiers]_vars

\* C18's case: an invocation returned after four failed requests, 8 s after
\* it started
C18_Witness ==
  \E c \in Returned :
    /\ calls[c].nFetch = 4
    /\ calls[c].failures = 4
    /\ calls[c].tier \in DegradedTiers
    /\ callsStarted = 1
    /\ ticks = 0
    /\ now = T0 + 8

\* C19 (as stated, for samples that a poll has stored): once a poll has
\* succeeded, the timestamp of a symbol's stored price sample never
\* decreases, whatever timestamps the polls report and in whatever order
\* their responses arrive.
C19_SampleTimestampMonotone ==
  [][broadcastCount > 0 =>
       \A s \in TrackedSymbols : prices'[s].timestamp >= prices[s].timestamp]_vars

\* C20 (as stated): every symbol's history buffer is sorted ascending by
\* timestamp.
C20_HistorySorted ==
  \A s \in TrackedSymbols :
    \A i \in 1..Len(priceHistory[s]) : \A j \in i..Len(priceHistory[s]) :
      priceHistory[s][i].timestamp <= priceHistory[s][j].timestamp

\* a step in which a polling timer fires
TimerFires == \E id \in 1..Len(intervals) : TimerFire(id)

\* C13 (as stated): once stop() has been invoked, and start() not since,
\* no polling timer fires; and stop() invoked while no timer is scheduled
\* changes no state of the service.
C13_StopCancelsPolling ==
  [][/\ stopped => ~TimerFires
     /\ (Stop /\ pollingInterval = 0)
        => UNCHANGED <<now, prices, priceHistory, candleCache, pollsStarted,
                       pollsInFlight, pollingInterval, intervals,
                       startsAwaiting>>]_vars

\* a step in which the response to a poll arrives, with that response
PollAnswered(resp) == FetchPricesResponse(resp) \/ StartFetchResponse(resp)

\* C14: start() issues one request at once and schedules no timer before
\* the answer; the timer (period 20 s) is created in the step in which that
\* first poll ends.  A successful poll stores each reported price and
\* timestamp in the price map, appends each positive price to the history,
\* and makes exactly one broadcast, whose snapshot is the price map of all
\* tracked symbols after the update.  A failed poll makes no broadcast.
C14_StartAndPollOrder ==
  [][/\ startCalls' # startCalls
        => /\ pollsStarted' = pollsStarted + 1
           /\ startsAwaiting' = startsAwaiting + 1
           /\ UNCHANGED <<intervals, pollingInterval>>
     /\ Len(intervals') # Len(intervals)
        => /\ startsAwaiting' = startsAwaiting - 1
           /\ Len(intervals') = Len(intervals) + 1
           /\ intervals'[Len(intervals')] = now + 20
           /\ pollingInterval' = Len(intervals')
     /\ \A resp \in PriceResponses(TimerQuotes, now) :
          PollAnswered(resp) =>
            IF resp.kind = "ok"
            THEN /\ \A s \in TrackedSymbols :
                      IF resp.data[s].present
                      THEN /\ prices'[s].price = resp.data[s].usd
                           /\ prices'[s].timestamp = resp.data[s].last_updated_at
                           /\ resp.data[s].usd > 0 =>
                                /\ Len(priceHistory'[s]) >= 1
                                /\ priceHistory'[s][Len(priceHistory'[s])] =
                                     [timestamp |-> resp.data[s].last_updated_at,
                                      price |-> resp.data[s].usd]
                      ELSE /\ prices'[s] = prices[s]
                           /\ priceHistory'[s] = priceHistory[s]
                 /\ broadcastCount' = broadcastCount + 1
                 /\ DOMAIN lastBroadcast' = TrackedSymbols
                 /\ lastBroadcast' = prices'
            ELSE UNCHANGED <<broadcastCount, lastBroadcast>>
     /\ broadcastCount' # broadcastCount
        => \E resp \in PriceResponses(TimerQuotes, now) :
             resp.kind = "ok" /\ PollAnswered(resp)]_vars

\* C14's case: start()'s poll and a poll of the timer both succeeded, the
\* second one 20 s later with a new price
C14_Witness ==
  /\ startCalls = 1
  /\ Len(intervals) = 1
  /\ broadcastCount = 2
  /\ now = T0 + 20
  /\ lastBroadcast["ETH"].price = 50100
  /\ Len(priceHistory["ETH"]) = 2

(***************************************************************************)
(* Properties of the WebSocket manager.                                    *)
(***************************************************************************)
\* the socket is held by the registry or by the admin set
Held(ws) == ws \in Registered \/ ws \in adminClients

\* C15: a socket whose handshake carried no token or a token that does not
\* verify is closed with code 1008 and is held neither by the registry nor
\* by the admin set; every socket they hold carried a token that verified.
C15_OnlyVerifiedRegistered ==
  /\ \A ws \in 1..Len(conns) :
       conns[ws].credential # "valid"
         => /\ conns[ws].closeCode = 1008
            /\ conns[ws].readyState \in {"closing", "closed"}
            /\ ~Held(ws)
            /\ ~conns[ws].welcomed
  /\ \A ws \in Registered \cup adminClients :
       ws \in 1..Len(conns) /\ conns[ws].credential = "valid"

\* C15's case: a handshake with a token that does not verify (and an admin
\* payload) was rejected, and one with a verified admin token is registered
C15_Witness ==
  /\ Len(conns) = 2
  /\ conns[1].credential = "invalid" /\ conns[1].closeCode = 1008
  /\ conns[2].credential = "valid" /\ 2 \in adminClients /\ 2 \in Registered

C17_EmitWithoutTargetIsNoop ==
  [][/\ \A userId \in UserIds :
          (EmitToUser(userId) /\ (userId \notin DOMAIN clients \/ clients[userId] = {}))
            => /\ UNCHANGED <<conns, clients, adminClients>>
               /\ lastEmit'["user"].sent = 0
               /\ emits' = emits + 1
     /\ (EmitToAdmins /\ adminClients = {})
          => /\ UNCHANGED <<conns, clients, adminClients>>
             /\ lastEmit'["admins"].sent = 0
             /\ emits' = emits + 1]_vars

\* C17's case: both emits were made without a target while an open socket
\* of another identity was registered
C17_Witness ==
  /\ lastEmit["user"].called /\ ~lastEmit["user"].hadTarget
  /\ lastEmit["admins"].called /\ ~lastEmit["admins"].hadTarget
  /\ \E ws \in Registered : conns[ws].readyState = "open"
  /\ adminClients = {}

\* C21 (as stated): after every append to a symbol's history buffer, the
\* buffer holds no point with timestamp < now - 24 h, now being the time of
\* the append.
C21_AppendPrunesByClock ==
  [][\A s \in TrackedSymbols :
       priceHistory'[s] # priceHistory[s]
         => \A i \in 1..Len(priceHistory'[s]) :
              priceHistory'[s][i].timestamp >= now' - MAX_HISTORY_HOURS * 60 * 60]_vars

\* open, high, low and close of the candle are one price
Flat(candle) ==
  /\ candle.open = candle.high
  /\ candle.high = candle.low
  /\ candle.low = candle.close

\* the tiers that build candles in the service: from the history buffer,
\* from the current price, and the zero candle
BuiltTiers == {"history", "synthetic", "zero"}

\* C22: every candle an invocation returns from history reconstruction, as
\* the synthetic candle or as the zero candle has low <= open <= high and
\* low <= close <= high; the synthetic and the zero candle, and a history
\* candle whose bucket group holds a single point, have
\* open = high = low = close.
C22_BuiltCandlesOrdered ==
  \A c \in Returned :
    LET call == calls[c]
        h == PointsInWindow(call)
        groups == Cardinality(GroupStarts(h, call.interval))
    IN call.tier \in BuiltTiers =>
         /\ \A k \in 1..Len(call.result) : WellFormed(call.result[k])
         /\ call.tier \in {"synthetic", "zero"}
              => Len(call.result) = 1 /\ Flat(call.result[1])
         /\ call.tier = "history"
              => /\ Len(call.result) <= groups
                 /\ \A k \in 1..Len(call.result) :
                      LET i == NthStart(h, call.interval,
                                        groups - Len(call.result) + k)
                      IN GroupEnd(h, call.interval, i) = i
                           => /\ Flat(call.result[k])
                              /\ call.result[k].open = h[i].price

\* C22's case: a history-tier result whose first candle aggregates points of
\* different price and whose second candle is built from a single point
C22_Witness ==
  \E c \in Returned :
    LET call == calls[c]
        h == PointsInWindow(call)
    IN /\ call.tier = "history"
       /\ Len(call.result) = 2
       /\ Len(h) = 3
       /\ call.result[1].high > call.result[1].low
       /\ GroupEnd(h, call.interval, 3) = 3
       /\ Flat(call.result[2])

(***************************************************************************)
(* Properties of the heartbeat.                                            *)
(***************************************************************************)
\* C23: at a heartbeat check, an open socket that the previous check
\* examined and that sent no pong since is terminated; an open socket that
\* sent a pong since the previous check, or that no check has examined yet,
\* is not terminated by the check.
C23_HeartbeatTerminatesSilent ==
  [][Heartbeat =>
       \A ws \in 1..Len(conns) :
         conns[ws].readyState = "open" =>
           IF hbLog[ws].checked /\ ~hbLog[ws].ponged
           THEN conns'[ws].readyState = "closing"
           ELSE conns'[ws].readyState = "open"]_vars

\* C23's case: socket 2, connected after socket 1, was terminated by the
\* heartbeat (two checks without a pong) while socket 1, which answered,
\* is still open after those checks
C23_Witness ==
  /\ Len(conns) = 2
  /\ conns[1].readyState = "open" /\ hbLog[1].checked
  /\ conns[2].handlers /\ conns[2].readyState = "closing"

(***************************************************************************)
(* Properties of overlapping invocations.                                  *)
(***************************************************************************)
\* no getCandles invocation has returned without its caller having resumed
NoContinuationPending == \A c \in CallIds : calls[c].pc # "done"

\* C24: while a getCandles invocation waits in a retry delay (and no
\* returned promise awaits its continuation), a poll can start, a started
\* poll and another invocation's request can complete, and an invocation
\* for another key can start; and every step taken while it waits, other
\* than the firing of its own timer, leaves the waiting invocation as it is.
C24_BackoffWaitsAlone ==
  /\ [](\A c \in CallIds :
       (calls[c].pc = "backoff" /\ NoContinuationPending) =>
         /\ ENABLED FetchPricesStart
         /\ pollsInFlight > 0 =>
              \A resp \in PriceResponses(WaitQuotes, now) :
                ENABLED FetchPricesResponse(resp)
         /\ \A d \in CallIds \ {c} :
              /\ calls[d].pc = "idle" =>
                   \A a \in ConcArgs :
                     cacheKey(a[1], a[2]) # keyOf(calls[c])
                       => ENABLED GetCandles(d, a[1], a[2], a[3])
              /\ calls[d].pc = "fetch" =>
                   \A resp \in OhlcConcResponses(calls[d].interval, now) :
                     ENABLED FetchResponse(d, resp))
  /\ [][\A c \in CallIds :
          (calls[c].pc = "backoff" /\ calls'[c] # calls[c])
            => /\ BackoffElapsed(c)
               /\ now' >= calls[c].wakeAt
               /\ calls'[c] = [calls[c] EXCEPT !.pc = "fetch", !.nFetch = @ + 1]]_vars

\* C24's case: invocation 1 waits in its retry delay while invocation 2,
\* for another key, has returned the upstream's candles and a poll has
\* stored a price
C24_Witness ==
  /\ calls[1].pc = "backoff"
  /\ now < calls[1].wakeAt
  /\ calls[2].pc = "done" /\ calls[2].tier = "upstream"
  /\ keyOf(calls[2]) # keyOf(calls[1])
  /\ lastPoll = "ok" /\ pollsInFlight = 0
  /\ prices["ETH"].price = 50000

(***************************************************************************)
(* Properties of the candle cache.                                         *)
(***************************************************************************)
\* C25: the cache entry of a key changes only in the step in which a
\* request of an invocation for that key is answered successfully, and then
\* it becomes the answer's candles stamped with the current time; a step in
\* which an invocation returns from the fresh cache, the stale cache, the
\* history, the synthetic candle or the zero candle leaves the cache as it
\* is; an entry that is present stays present.
C25_CacheWrittenOnSuccessOnly ==
  [][/\ \A k \in CacheKeys :
          /\ candleCache'[k] # candleCache[k]
               => \E c \in CallIds :
                    /\ calls[c].pc = "fetch"
                    /\ keyOf(calls[c]) = k
                    /\ calls'[c].pc = "done" /\ calls'[c].tier = "upstream"
                    /\ \E resp \in OhlcResponses(calls[c].interval, now) :
                         /\ resp.kind = "ok"
                         /\ candleCache'[k] =
                              [present |-> TRUE, data |-> mapOhlc(resp.data),
                               timestamp |-> now]
          /\ candleCache[k].present => candleCache'[k].present
     /\ \A c \in CallIds :
          (calls[c].pc # "done" /\ calls'[c].pc = "done")
            => IF calls'[c].tier = "upstream"
               THEN /\ candleCache'[keyOf(calls'[c])].present
                    /\ candleCache'[keyOf(calls'[c])].timestamp = now
               ELSE UNCHANGED candleCache]_vars

\* C25's case: an invocation returned the stale entry, which an earlier
\* successful fetch created and which is still the entry of the key
C25_Witness ==
  \E c \in Returned :
    /\ calls[c].tier = "stale"
    /\ candleCache[keyOf(calls[c])].present
    /\ candleCache[keyOf(calls[c])] = calls[c].cached
    /\ now - candleCache[keyOf(calls[c])].timestamp >= CACHE_DURATION

\* the polling timers that are scheduled
ActiveTimers == {id \in 1..Len(intervals) : intervals[id] # 0}

\* C26 (as stated): at most one polling timer is scheduled at any time, and
\* none is scheduled once stop() was the last call made and no start() is
\* still awaiting its first poll.
C26_AtMostOneTimer ==
  /\ Cardinality(ActiveTimers) <= 1
  /\ (stopped /\ startsAwaiting = 0) => ActiveTimers = {}

\* the open sockets authenticated with the identity
OpenOf(userId) ==
  {ws \in 1..Len(conns) :
     /\ conns[ws].readyState = "open"
     /\ conns[ws].credential = "valid"
     /\ conns[ws].userId = userId}

\* the open sockets authenticated with the admin flag
OpenAdmins ==
  {ws \in 1..Len(conns) :
     /\ conns[ws].readyState = "open"
     /\ conns[ws].credential = "valid"
     /\ conns[ws].isAdmin}

\* C27: the registry holds under an identity only sockets authenticated
\* with that identity, and never an empty set; the admin set holds only
\* sockets authenticated with the admin flag and is a subset of the
\* registered sockets; emitToUser(identity) sends one message to each open
\* socket of that identity and no other message, emitToAdmins one message
\* to each open admin socket and no other.
C27_EmitReachesOnlyItsTargets ==
  /\ [](/\ \A u \in DOMAIN clients :
             /\ clients[u] # {}
             /\ \A ws \in clients[u] :
                  /\ ws \in 1..Len(conns)
                  /\ conns[ws].credential = "valid"
                  /\ conns[ws].userId = u
        /\ \A ws \in adminClients :
             conns[ws].credential = "valid" /\ conns[ws].isAdmin
        /\ adminClients \subseteq Registered
        /\ \A u \in UserIds :
             OpenOf(u) \subseteq (IF u \in DOMAIN clients THEN clients[u] ELSE {})
        /\ OpenAdmins \subseteq adminClients)
  /\ [][/\ \A userId \in UserIds :
             EmitToUser(userId)
               => lastEmit'["user"].sent = Cardinality(OpenOf(userId))
        /\ EmitToAdmins
             => lastEmit'["admins"].sent = Cardinality(OpenAdmins)]_vars

\* C27's case: an identity has two registered sockets of which one is no
\* longer open, and the latest emit to a user sent one message
C27_Witness ==
  /\ \E u \in DOMAIN clients :
       /\ Cardinality(clients[u]) = 2
       /\ Cardinality(OpenOf(u)) = 1
  /\ lastEmit["user"].hadTarget
  /\ lastEmit["user"].sent = 1
  /\ lastEmit["admins"].hadTarget

(***************************************************************************)
(* Properties of the ledger.                                               *)
(***************************************************************************)
\* C28 (as stated): whatever callbacks arrive for the payment of a deposit,
\* its amount is added to the wallet at most once.
C28_DepositCreditedOnce ==
  \A id \in 1..Len(transactions) : transactions[id].credits <= 1

\* C29 (as stated): while only withdrawals have been approved, the
\* available balance is never negative and the amount of a transaction has
\* been taken from the wallet at most once.
C29_AvailableNeverNegative ==
  (\A id \in 1..Len(transactions) :
     transactions[id].type = "deposit" => transactions[id].debits = 0)
  => /\ wallet.availableBalanceUsd >= 0
     /\ \A id \in 1..Len(transactions) : transactions[id].debits <= 1

\* the reconnect timers that are pending
PendingReconnects == { j \in 1..Len(reconnectTimers) : reconnectTimers[j].pending }

\* C30: in the PriceProvider at most one reconnect timer is pending at any
\* time, and every WebSocket the provider opens is opened while it is
\* mounted and with the current token: once the cleanup of an effect has
\* run, no connection is opened with that effect's token.  The code does
\* not keep the second part: the close event of the socket the cleanup
\* closed arrives after the cleanup, finds reconnectTimeoutRef empty and
\* schedules a reconnect with the old effect's connectWebSocket.
C30_OneTimerNoStaleConnect ==
  /\ [](Cardinality(PendingReconnects) <= 1)
  /\ [][Len(sockets') > Len(sockets) =>
          /\ mounted'
          /\ sockets'[Len(sockets')].token = authToken']_vars

\* the first part alone
C30_OneTimerPending == Cardinality(PendingReconnects) <= 1

====
